---- MODULE Spec2Model ----
(***************************************************************************)
(* Model of silx.gui.plot.MaskToolsWidget.Mask: a 2D uint8 label grid with *)
(* in-place edit operations and a bounded undo/redo history of snapshots.  *)
(*                                                                         *)
(* A numpy array is a record [id, shape, data]: id names its storage (two  *)
(* records with the same id are the same buffer, so an in-place write to   *)
(* one is a write to both), shape is the numpy shape tuple and data maps   *)
(* each (row, col) index to the stored uint8 value.                        *)
(***************************************************************************)
EXTENDS Integers, Sequences, FiniteSets, TLC

\* ---- bounds of the history machine (Spec) ----
MaxCols == 2       \* widest mask: shapes (0, 0), (1, 1) .. (1, MaxCols)
MaxLevel == 1      \* largest label stored by a well-formed call
MaxDepth == 2      \* largest historyDepth

\* ---- bounds of the single-edit machine (SpecEdit) ----
EditMaxCells == 2  \* largest number of cells of a mask
EditMaxLevel == 2  \* largest label stored by a well-formed call
MaxPts == 2        \* largest number of points passed to a point operation
MaxExtent == 1     \* largest height and width passed to updateRectangle

\* ---- bounds of the sliding-window machine (SpecWindow) ----
WindowMaxLevel == 3  \* largest label of its one-cell masks

\* ---- bounds of the widget machine (SpecWidget) ----
WidgetMaxHistory == 3  \* gestures that commit stop once history is this long
LoadMaxCells == 2      \* most cells of an array read from a file

\* ---- program constants ----
UInt8Mod == 256      \* dtype=numpy.uint8: values are kept modulo 2^8

DefaultDepth == 10   \* self.historyDepth = 10

\* a level argument above 255: 257, which is 1 when cast to uint8
BadLevel == UInt8Mod + 1

VARIABLES
    mask,          \* self._mask
    history,       \* self._history
    redoStack,     \* self._redo
    historyDepth,  \* self.historyDepth
    events,        \* signals emitted by the last call, in order
    exc,           \* exception raised by the last call, "none" if it returned
    notified,      \* the grid a sigChanged listener read at each emission
                   \* of the last call
    ret,           \* value returned by the last call ("None" if none)
    commits,       \* number of commit() calls made during the last call
    widget,        \* attributes of the MaskToolsWidget that owns the mask
    lastEmitted,   \* the value carried by the latest sigUndoable and by the
                   \* latest sigRedoable ("none" before the first), and
                   \* whether resetHistory() has run; followed by
                   \* SpecSignals only
    lastOp,        \* name of the last call
    args           \* arguments of the last call and the grid's cells before
                   \* it, recorded by SpecEdit only

vars ==
    <<mask, history, redoStack, historyDepth, events, exc, notified, ret,
      commits, widget, lastEmitted, lastOp, args>>

\* ---------------------------------------------------------------------------
\* numpy arrays
\* ---------------------------------------------------------------------------

\* the (row, col) indices of an array of the given shape; a rank-1 array of
\* shape (0,) has none
Cells(shape) ==
    IF Len(shape) = 2 THEN (0..(shape[1] - 1)) \X (0..(shape[2] - 1)) ELSE {}

\* shape of numpy.array((), dtype=numpy.uint8)
EmptyShape1D == <<0>>

\* storage names in use
UsedIds(s) ==
    {s.mask.id} \cup {s.history[i].id : i \in DOMAIN s.history}
                \cup {s.redoStack[i].id : i \in DOMAIN s.redoStack}

Max(S) == CHOOSE x \in S : \A y \in S : y <= x

\* a storage name no live array uses: a new allocation
NewId(s) == Max(UsedIds(s)) + 1

\* numpy.array(a, copy=False): the same buffer
Copy_alias(s, a) == a

\* numpy.array(a, copy=True)
Copy(s, a) == [a EXCEPT !.id = NewId(s)]

\* numpy.zeros(shape, dtype=numpy.uint8)
Zeros(s, shape) ==
    [id |-> NewId(s), shape |-> shape, data |-> [c \in Cells(shape) |-> 0]]

\* cast of a Python int to numpy.uint8
ToUInt8(v) == v % UInt8Mod

\* numpy broadcasting of one dimension against another
DimCompatible(a, b) == a = b \/ a = 1 \/ b = 1
BroadcastDim(a, b) == IF a = 1 THEN b ELSE a

\* a shape left-padded with 1 to rank 2
Pad2(shape) == IF Len(shape) = 2 THEN shape ELSE <<1>> \o shape

Broadcastable(sa, sb) ==
    /\ DimCompatible(Pad2(sa)[1], Pad2(sb)[1])
    /\ DimCompatible(Pad2(sa)[2], Pad2(sb)[2])

\* value of array a at index c of the broadcast result
BroadcastAt(a, c) ==
    LET sh == Pad2(a.shape)
        r == IF sh[1] = 1 THEN 0 ELSE c[1]
        k == IF sh[2] = 1 THEN 0 ELSE c[2]
    IN  IF Len(a.shape) = 2 THEN a.data[<<r, k>>] ELSE 0

\* comparison of the buffers' identities instead of their contents
AllEqual_identity(a, b) == a.id = b.id

\* numpy.all(numpy.equal(a, b)) for broadcastable a and b
AllEqual(a, b) ==
    LET sh == <<BroadcastDim(Pad2(a.shape)[1], Pad2(b.shape)[1]),
                BroadcastDim(Pad2(a.shape)[2], Pad2(b.shape)[2])>>
    IN  /\ Broadcastable(a.shape, b.shape)
        /\ \A c \in Cells(sh) : BroadcastAt(a, c) = BroadcastAt(b, c)

\* an in-place write to the buffer of self._mask: every array that shares
\* the buffer sees it
Store(s, data) ==
    LET i == s.mask.id
        upd(a) == IF a.id = i THEN [a EXCEPT !.data = data] ELSE a
    IN  [s EXCEPT !.mask = upd(s.mask),
                  !.history = [k \in DOMAIN s.history |-> upd(s.history[k])],
                  !.redoStack = [k \in DOMAIN s.redoStack |-> upd(s.redoStack[k])]]

\* ---------------------------------------------------------------------------
\* the Mask object as a record, and its methods as operators on it
\* ---------------------------------------------------------------------------

Emit(s, sig) == [s EXCEPT !.events = Append(s.events, sig)]

Raise(s, e) == [s EXCEPT !.exc = e]

\* Mask._notify; a slot connected to sigChanged runs inside emit() and reads
\* the grid as it is at that moment
_notify(s) ==
    [Emit(s, "sigChanged") EXCEPT
        !.notified = Append(s.notified,
                            [shape |-> s.mask.shape, data |-> s.mask.data])]

Front(q) == SubSeq(q, 1, Len(q) - 1)
Last(q) == q[Len(q)]

\* Mask.__init__
MaskInit(depth) ==
    [mask |-> [id |-> 0, shape |-> EmptyShape1D, data |-> <<>>],
     history |-> <<>>,
     redoStack |-> <<>>,
     historyDepth |-> depth,
     events |-> <<>>,
     exc |-> "none",
     notified |-> <<>>,
     ret |-> "None",
     commits |-> 0]

\* Mask.resetHistory
\* a resetHistory that emits no signal
resetHistory_silent(s) ==
    [s EXCEPT !.history = <<Copy(s, s.mask)>>, !.redoStack = <<>>]

resetHistory(s) ==
    LET s1 == [s EXCEPT !.history = <<Copy(s, s.mask)>>, !.redoStack = <<>>]
    IN  Emit(Emit(s1, "sigUndoable(False)"), "sigRedoable(False)")

\* eviction of the newest entries in place of the oldest
RECURSIVE PopOldest_newest(_, _)
PopOldest_newest(h, depth) ==
    IF Len(h) >= depth /\ h # <<>>
    THEN PopOldest_newest(SubSeq(h, 1, Len(h) - 1), depth) ELSE h

\* eviction with > in place of >=
RECURSIVE PopOldest_gt(_, _)
PopOldest_gt(h, depth) ==
    IF Len(h) > depth /\ h # <<>> THEN PopOldest_gt(Tail(h), depth) ELSE h

\* while len(self._history) >= self.historyDepth: self._history.pop(0)
RECURSIVE PopOldest(_, _)
PopOldest(h, depth) ==
    IF Len(h) >= depth /\ h # <<>> THEN PopOldest(Tail(h), depth) ELSE h

\* the test without "not self._history": an empty history counts as unchanged
Changed_noEmpty(s) ==
    \/ s.redoStack # <<>>
    \/ s.history # <<>> /\ ~AllEqual(s.mask, Last(s.history))

\* the test without "self._redo": a pending redo does not force a commit
Changed_noRedo(s) ==
    \/ s.history = <<>>
    \/ ~AllEqual(s.mask, Last(s.history))

\* the test of Mask.commit: not self._history or self._redo or
\* not numpy.all(numpy.equal(self._mask, self._history[-1]))
Changed(s) ==
    \/ s.history = <<>>
    \/ s.redoStack # <<>>
    \/ ~AllEqual(s.mask, Last(s.history))

\* numpy.equal raises ValueError on shapes that do not broadcast; "or" does
\* not evaluate it when the history is empty or the redo stack is not
EqualRaises(s) ==
    /\ s.history # <<>>
    /\ s.redoStack = <<>>
    /\ ~Broadcastable(s.mask.shape, Last(s.history).shape)

\* Mask.commit (s0 is the object when the call is made; the call is counted)
commit(s0) ==
    LET s == [s0 EXCEPT !.commits = @ + 1]
    IN
    IF EqualRaises(s)
    THEN Raise(s, "ValueError")
    ELSE IF Changed(s)
    THEN LET s1 == IF s.redoStack # <<>>
                   THEN Emit([s EXCEPT !.redoStack = <<>>], "sigRedoable(False)")
                   ELSE s
             s2 == [s1 EXCEPT !.history =
                        Append(PopOldest(s1.history, s1.historyDepth),
                               Copy(s1, s1.mask))]
         IN  IF Len(s2.history) = 2 THEN Emit(s2, "sigUndoable(True)") ELSE s2
    ELSE s

\* undo that pushes the current grid, not the top of the history, onto the
\* redo stack
undo_pushGrid(s) ==
    IF Len(s.history) > 1
    THEN LET s1 == [s EXCEPT !.redoStack = Append(s.redoStack, Copy(s, s.mask)),
                             !.history = Front(s.history)]
             s2 == [s1 EXCEPT !.mask = Copy(s1, Last(s1.history))]
             s3 == _notify(s2)
             s4 == IF Len(s3.redoStack) = 1
                   THEN Emit(s3, "sigRedoable(True)") ELSE s3
         IN  IF Len(s4.history) = 1 THEN Emit(s4, "sigUndoable(False)") ELSE s4
    ELSE s

\* undo that, with a single history entry, restores it
undo_restoreLast(s) ==
    IF Len(s.history) > 1
    THEN LET s1 == [s EXCEPT !.redoStack = Append(s.redoStack, Last(s.history)),
                             !.history = Front(s.history)]
             s2 == [s1 EXCEPT !.mask = Copy(s1, Last(s1.history))]
             s3 == _notify(s2)
             s4 == IF Len(s3.redoStack) = 1
                   THEN Emit(s3, "sigRedoable(True)") ELSE s3
         IN  IF Len(s4.history) = 1 THEN Emit(s4, "sigUndoable(False)") ELSE s4
    ELSE IF Len(s.history) = 1
    THEN _notify([s EXCEPT !.mask = Copy(s, Last(s.history))])
    ELSE s

\* undo that calls _notify before it restores the snapshot
undo_notifyFirst(s) ==
    IF Len(s.history) > 1
    THEN LET s1 == [s EXCEPT !.redoStack = Append(s.redoStack, Last(s.history)),
                             !.history = Front(s.history)]
             s2 == _notify(s1)
             s3 == [s2 EXCEPT !.mask = Copy(s2, Last(s2.history))]
             s4 == IF Len(s3.redoStack) = 1
                   THEN Emit(s3, "sigRedoable(True)") ELSE s3
         IN  IF Len(s4.history) = 1 THEN Emit(s4, "sigUndoable(False)") ELSE s4
    ELSE s

\* undo that emits sigUndoable(False) whatever is left in the history
undo_undoableAlways(s) ==
    IF Len(s.history) > 1
    THEN LET s1 == [s EXCEPT !.redoStack = Append(s.redoStack, Last(s.history)),
                             !.history = Front(s.history)]
             s2 == [s1 EXCEPT !.mask = Copy(s1, Last(s1.history))]
             s3 == _notify(s2)
             s4 == IF Len(s3.redoStack) = 1
                   THEN Emit(s3, "sigRedoable(True)") ELSE s3
         IN  Emit(s4, "sigUndoable(False)")
    ELSE s

\* undo that emits sigRedoable(True) whatever the redo stack held
undo_redoableAlways(s) ==
    IF Len(s.history) > 1
    THEN LET s1 == [s EXCEPT !.redoStack = Append(s.redoStack, Last(s.history)),
                             !.history = Front(s.history)]
             s2 == [s1 EXCEPT !.mask = Copy(s1, Last(s1.history))]
             s3 == _notify(s2)
             s4 == Emit(s3, "sigRedoable(True)")
         IN  IF Len(s4.history) = 1 THEN Emit(s4, "sigUndoable(False)") ELSE s4
    ELSE s

\* Mask.undo
\* an undo that moves the newest snapshot to redoStack and leaves the grid
undo_keepGrid(s) ==
    IF Len(s.history) > 1
    THEN LET s1 == [s EXCEPT !.redoStack = Append(s.redoStack, Last(s.history)),
                             !.history = Front(s.history)]
             s3 == _notify(s1)
             s4 == IF Len(s3.redoStack) = 1 THEN Emit(s3, "sigRedoable(True)") ELSE s3
         IN  IF Len(s4.history) = 1 THEN Emit(s4, "sigUndoable(False)") ELSE s4
    ELSE s

undo(s) ==
    IF Len(s.history) > 1
    THEN LET s1 == [s EXCEPT !.redoStack = Append(s.redoStack, Last(s.history)),
                             !.history = Front(s.history)]
             s2 == [s1 EXCEPT !.mask = Copy(s1, Last(s1.history))]
             s3 == _notify(s2)
             s4 == IF Len(s3.redoStack) = 1 THEN Emit(s3, "sigRedoable(True)") ELSE s3
         IN  IF Len(s4.history) = 1 THEN Emit(s4, "sigUndoable(False)") ELSE s4
    ELSE s

\* redo that restores the mask and forgets to append it to the history
redo_noAppend(s) ==
    IF s.redoStack # <<>>
    THEN LET s1 == [s EXCEPT !.mask = Last(s.redoStack),
                             !.redoStack = Front(s.redoStack)]
             s3 == _notify(s1)
             s4 == IF s3.redoStack = <<>>
                   THEN Emit(s3, "sigRedoable(False)") ELSE s3
         IN  IF Len(s4.history) = 2 THEN Emit(s4, "sigUndoable(True)") ELSE s4
    ELSE s

\* redo that reports an empty redo stack even when it had nothing to restore
redo_emitWhenEmpty(s) ==
    IF s.redoStack # <<>>
    THEN LET s1 == [s EXCEPT !.mask = Last(s.redoStack),
                             !.redoStack = Front(s.redoStack)]
             s2 == [s1 EXCEPT !.history = Append(s1.history, Copy(s1, s1.mask))]
             s3 == _notify(s2)
             s4 == IF s3.redoStack = <<>>
                   THEN Emit(s3, "sigRedoable(False)") ELSE s3
         IN  IF Len(s4.history) = 2 THEN Emit(s4, "sigUndoable(True)") ELSE s4
    ELSE Emit(s, "sigRedoable(False)")

\* redo that emits sigRedoable(False) whatever is left in the redo stack
redo_redoableAlways(s) ==
    IF s.redoStack # <<>>
    THEN LET s1 == [s EXCEPT !.mask = Last(s.redoStack),
                             !.redoStack = Front(s.redoStack)]
             s2 == [s1 EXCEPT !.history = Append(s1.history, Copy(s1, s1.mask))]
             s3 == _notify(s2)
             s4 == Emit(s3, "sigRedoable(False)")
         IN  IF Len(s4.history) = 2 THEN Emit(s4, "sigUndoable(True)") ELSE s4
    ELSE s

\* Mask.redo
\* a redo that restores the oldest entry of redoStack, not the newest
redo_oldest(s) ==
    IF s.redoStack # <<>>
    THEN LET s1 == [s EXCEPT !.mask = Head(s.redoStack), !.redoStack = Tail(s.redoStack)]
             s2 == [s1 EXCEPT !.history = Append(s1.history, Copy(s1, s1.mask))]
             s3 == _notify(s2)
             s4 == IF s3.redoStack = <<>> THEN Emit(s3, "sigRedoable(False)") ELSE s3
         IN  IF Len(s4.history) = 2 THEN Emit(s4, "sigUndoable(True)") ELSE s4
    ELSE s

\* a redo that leaves the restored snapshot in redoStack
redo_keepTop(s) ==
    IF s.redoStack # <<>>
    THEN LET s1 == [s EXCEPT !.mask = Last(s.redoStack)]
             s2 == [s1 EXCEPT !.history = Append(s1.history, Copy(s1, s1.mask))]
             s3 == _notify(s2)
             s4 == IF s3.redoStack = <<>> THEN Emit(s3, "sigRedoable(False)") ELSE s3
         IN  IF Len(s4.history) = 2 THEN Emit(s4, "sigUndoable(True)") ELSE s4
    ELSE s

redo(s) ==
    IF s.redoStack # <<>>
    THEN LET s1 == [s EXCEPT !.mask = Last(s.redoStack), !.redoStack = Front(s.redoStack)]
             s2 == [s1 EXCEPT !.history = Append(s1.history, Copy(s1, s1.mask))]
             s3 == _notify(s2)
             s4 == IF s3.redoStack = <<>> THEN Emit(s3, "sigRedoable(False)") ELSE s3
         IN  IF Len(s4.history) = 2 THEN Emit(s4, "sigUndoable(True)") ELSE s4
    ELSE s

\* assert level > 0 and level < 256
LevelOk(level) == level > 0 /\ level < 256

\* setMask without its assert: an array of any rank is installed
setMask_noAssert(s, shape, data) ==
    _notify([s EXCEPT !.mask =
        [id |-> NewId(s), shape |-> shape,
         data |-> [c \in Cells(shape) |-> ToUInt8(data[c])]]])

\* setMask that commits the array it installs
setMask_commit(s, shape, data) ==
    IF Len(shape) # 2
    THEN Raise(s, "AssertionError")
    ELSE commit(_notify([s EXCEPT !.mask =
            [id |-> NewId(s), shape |-> shape,
             data |-> [c \in Cells(shape) |-> ToUInt8(data[c])]]]))

\* Mask.setMask; rank is len(mask.shape) of the argument
setMask(s, shape, data) ==
    IF Len(shape) # 2
    THEN Raise(s, "AssertionError")
    ELSE _notify([s EXCEPT !.mask =
            [id |-> NewId(s), shape |-> shape,
             data |-> [c \in Cells(shape) |-> ToUInt8(data[c])]]])

\* clear that zeroes every labelled cell, whatever its level
clear_nonzero(s, level) ==
    IF ~LevelOk(level)
    THEN Raise(s, "AssertionError")
    ELSE LET d == s.mask.data
         IN  _notify(Store(s, [c \in DOMAIN d |-> 0]))

\* Mask.clear
clear(s, level) ==
    IF ~LevelOk(level)
    THEN Raise(s, "AssertionError")
    ELSE LET d == s.mask.data
         IN  _notify(Store(s, [c \in DOMAIN d |->
                                  IF d[c] = level THEN 0 ELSE d[c]]))

\* reset that never resets the history
reset_keepHistory(s, shape) ==
    LET sh == IF shape = <<>> THEN <<0, 0>> ELSE shape
    IN  _notify([s EXCEPT !.mask = Zeros(s, sh)])

\* Mask.reset; shape is None or a 2-tuple
reset(s, shape) ==
    LET sh == IF shape = <<>> THEN <<0, 0>> ELSE shape
        shapeChanged == sh # s.mask.shape
        s1 == [s EXCEPT !.mask = Zeros(s, sh)]
        s2 == IF shapeChanged THEN resetHistory(s1) ELSE s1
    IN  _notify(s2)

\* invert that looks for the cells at level after it has written level to
\* the cells at 0
invert_zeroFirst(s, level) ==
    IF ~LevelOk(level)
    THEN Raise(s, "AssertionError")
    ELSE LET d == s.mask.data
             d1 == [c \in DOMAIN d |-> IF d[c] = 0 THEN level ELSE d[c]]
             masked == {c \in DOMAIN d : d1[c] = level}
             d2 == [c \in DOMAIN d |-> IF c \in masked THEN 0 ELSE d1[c]]
         IN  _notify(Store(s, d2))

\* Mask.invert
invert(s, level) ==
    IF ~LevelOk(level)
    THEN Raise(s, "AssertionError")
    ELSE LET d == s.mask.data
             masked == {c \in DOMAIN d : d[c] = level}
             d1 == [c \in DOMAIN d |-> IF d[c] = 0 THEN level ELSE d[c]]
             d2 == [c \in DOMAIN d |-> IF c \in masked THEN 0 ELSE d1[c]]
         IN  _notify(Store(s, d2))

\* Python's slice [start:stop] of an axis of length n, for start >= 0
SliceStop(n, stop) ==
    IF stop < 0 THEN (IF stop + n < 0 THEN 0 ELSE stop + n)
    ELSE (IF stop > n THEN n ELSE stop)

SliceIdx(n, start, stop) ==
    {i \in 0..(n - 1) : start <= i /\ i < SliceStop(n, stop)}

PyMax0(x) == IF x < 0 THEN 0 ELSE x

\* updateRectangle with the slice stops row+height and col+width: upper
\* bounds exclusive
updateRectangle_exclusive(s, level, row, col, height, width, doMask) ==
    IF ~LevelOk(level)
    THEN Raise(s, "AssertionError")
    ELSE IF Len(s.mask.shape) # 2
    THEN Raise(s, "IndexError")
    ELSE LET d == s.mask.data
             selection ==
                 SliceIdx(s.mask.shape[1], PyMax0(row), row + height) \X
                 SliceIdx(s.mask.shape[2], PyMax0(col), col + width)
             d1 == IF doMask
                   THEN [c \in DOMAIN d |->
                            IF c \in selection THEN ToUInt8(level) ELSE d[c]]
                   ELSE [c \in DOMAIN d |->
                            IF c \in selection /\ d[c] = level THEN 0 ELSE d[c]]
         IN  _notify(Store(s, d1))

\* Mask.updateRectangle
updateRectangle(s, level, row, col, height, width, doMask) ==
    IF ~LevelOk(level)
    THEN Raise(s, "AssertionError")
    ELSE IF Len(s.mask.shape) # 2
    THEN Raise(s, "IndexError")
    ELSE LET d == s.mask.data
             selection ==
                 SliceIdx(s.mask.shape[1], PyMax0(row), row + height + 1) \X
                 SliceIdx(s.mask.shape[2], PyMax0(col), col + width + 1)
             d1 == IF doMask
                   THEN [c \in DOMAIN d |->
                            IF c \in selection THEN ToUInt8(level) ELSE d[c]]
                   ELSE [c \in DOMAIN d |->
                            IF c \in selection /\ d[c] = level THEN 0 ELSE d[c]]
         IN  _notify(Store(s, d1))

\* Mask.updatePolygon; fill is the set of cells where
\* shapes.polygon_fill_mask(vertices, self._mask.shape) is nonzero
updatePolygon(s, level, fill, doMask) ==
    LET d == s.mask.data
        d1 == IF doMask
              THEN [c \in DOMAIN d |->
                       IF c \in fill THEN ToUInt8(level) ELSE d[c]]
              ELSE [c \in DOMAIN d |->
                       IF c \in fill /\ d[c] = level THEN 0 ELSE d[c]]
    IN  _notify(Store(s, d1))

\* updatePoints whose unmask branch clears every valid point
updatePoints_clearAll(s, level, pts, doMask) ==
    IF Len(s.mask.shape) # 2
    THEN Raise(s, "IndexError")
    ELSE LET d == s.mask.data
             valid == {p \in pts : /\ p[1] >= 0 /\ p[2] >= 0
                                   /\ p[1] < s.mask.shape[1]
                                   /\ p[2] < s.mask.shape[2]}
             d1 == IF doMask
                   THEN [c \in DOMAIN d |->
                            IF c \in valid THEN ToUInt8(level) ELSE d[c]]
                   ELSE [c \in DOMAIN d |-> IF c \in valid THEN 0 ELSE d[c]]
         IN  _notify(Store(s, d1))

\* updatePoints without the tests rows >= 0 and cols >= 0: a negative index
\* counts from the end of its axis
updatePoints_wrapNegative(s, level, pts, doMask) ==
    IF Len(s.mask.shape) # 2
    THEN Raise(s, "IndexError")
    ELSE LET d == s.mask.data
             wrap(i, n) == IF i < 0 THEN i + n ELSE i
             valid == {<<wrap(p[1], s.mask.shape[1]), wrap(p[2], s.mask.shape[2])>> :
                          p \in {q \in pts : /\ q[1] < s.mask.shape[1]
                                              /\ q[2] < s.mask.shape[2]}}
             d1 == IF doMask
                   THEN [c \in DOMAIN d |->
                            IF c \in valid THEN ToUInt8(level) ELSE d[c]]
                   ELSE LET inMask == {p \in valid \cap DOMAIN d : d[p] = level}
                        IN  [c \in DOMAIN d |->
                                IF c \in inMask THEN 0 ELSE d[c]]
         IN  _notify(Store(s, d1))

\* Mask.updatePoints; pts is the set of the pairs (rows[i], cols[i])
\* an updatePoints that stores the level as passed, not as a uint8
updatePoints_noCast(s, level, pts, doMask) ==
    IF Len(s.mask.shape) # 2
    THEN Raise(s, "IndexError")
    ELSE LET d == s.mask.data
             valid == {p \in pts : /\ p[1] >= 0 /\ p[2] >= 0
                                   /\ p[1] < s.mask.shape[1]
                                   /\ p[2] < s.mask.shape[2]}
             d1 == IF doMask
                   THEN [c \in DOMAIN d |->
                            IF c \in valid THEN level ELSE d[c]]
                   ELSE LET inMask == {p \in valid : d[p] = level}
                        IN  [c \in DOMAIN d |->
                                IF c \in inMask THEN 0 ELSE d[c]]
         IN  _notify(Store(s, d1))

updatePoints(s, level, pts, doMask) ==
    IF Len(s.mask.shape) # 2
    THEN Raise(s, "IndexError")
    ELSE LET d == s.mask.data
             valid == {p \in pts : /\ p[1] >= 0 /\ p[2] >= 0
                                   /\ p[1] < s.mask.shape[1]
                                   /\ p[2] < s.mask.shape[2]}
             d1 == IF doMask
                   THEN [c \in DOMAIN d |->
                            IF c \in valid THEN ToUInt8(level) ELSE d[c]]
                   ELSE LET inMask == {p \in valid : d[p] = level}
                        IN  [c \in DOMAIN d |->
                                IF c \in inMask THEN 0 ELSE d[c]]
         IN  _notify(Store(s, d1))

\* Mask.updateStencil; stencil is the set numpy.nonzero(stencil) returns
\* (on the rank-1 mask of __init__ a stencil of the mask's rank makes
\* "rows, cols = numpy.nonzero(stencil)" fail to unpack)
updateStencil(s, level, stencil, doMask) ==
    IF Len(s.mask.shape) # 2
    THEN Raise(s, "ValueError")
    ELSE updatePoints(s, level, stencil, doMask)

\* Mask.updateDisk; disk is what shapes.circle_fill(crow, ccol, radius) returns
updateDisk(s, level, disk, doMask) ==
    updatePoints(s, level, disk, doMask)

\* Mask.updateLine; line is what shapes.draw_line(row0, col0, row1, col1,
\* width) returns
updateLine(s, level, line, doMask) ==
    updatePoints(s, level, line, doMask)

\* the method returns v, unless an exception is on its way out
Return(s, v) == IF s.exc # "none" THEN s ELSE [s EXCEPT !.ret = v]

\* Mask.save; codec is what the writer of the file format does: "ok", or the
\* exception it raises (EdfFile, TiffIO and numpy.save are not part of the
\* sources)
save(s, kind, codec) ==
    IF kind \in {"edf", "tif"}
    THEN IF codec = "ok" THEN Return(s, "True") ELSE Raise(s, codec)
    ELSE IF kind = "npy"
    THEN IF codec = "ok" THEN Return(s, "True")
         ELSE IF codec = "IOError" THEN Return(s, "False")
         ELSE Raise(s, codec)
    ELSE Return(s, "False")

\* ---------------------------------------------------------------------------
\* MaskToolsWidget: its handlers as operators on the Mask object s and the
\* widget attributes w; each gives the pair [m, w] the handler leaves
\* ---------------------------------------------------------------------------

\* the next statement of a handler is a call of commit(): it is skipped when
\* an exception is already on its way out
ThenCommit(s) == IF s.exc # "none" THEN s ELSE commit(s)

\* len(a) of an array of the given shape
PyLen(shape) == shape[1]

\* MaskToolsWidget.changeEvent and the tail of hideEvent: a drawing tool in
\* use is left for the browse tool, whose selection unchecks the tool's
\* action and so clears _drawingMode
LeaveDrawingTool(w) == [w EXCEPT !.drawingMode = "None"]

\* an _activeImageChanged that installs an all-zero grid of the image's shape
\* with setMask, leaving history as it is
_activeImageChanged_keepHistory(s, w, image) ==
    IF image = <<>>
    THEN LET w1 == IF w.enabled
                   THEN LeaveDrawingTool([w EXCEPT !.enabled = FALSE])
                   ELSE w
         IN  [m |-> ThenCommit(reset(s, <<>>)),
              w |-> [w1 EXCEPT !.data = <<0, 0>>]]
    ELSE LET w1 == [w EXCEPT !.enabled = TRUE, !.data = image]
         IN  IF image # s.mask.shape
             THEN [m |-> ThenCommit(setMask(s, image,
                                            [c \in Cells(image) |-> 0])),
                   w |-> w1]
             ELSE [m |-> s, w |-> w1]

\* MaskToolsWidget._activeImageChanged; image is the shape of the plot's
\* active image, <<>> when there is none or when it is the mask itself
_activeImageChanged(s, w, image) ==
    IF image = <<>>
    THEN LET w1 == IF w.enabled
                   THEN LeaveDrawingTool([w EXCEPT !.enabled = FALSE])
                   ELSE w
         IN  [m |-> ThenCommit(reset(s, <<>>)),
              w |-> [w1 EXCEPT !.data = <<0, 0>>]]
    ELSE LET w1 == [w EXCEPT !.enabled = TRUE, !.data = image]
         IN  IF image # s.mask.shape
             THEN [m |-> ThenCommit(reset(s, image)), w |-> w1]
             ELSE [m |-> s, w |-> w1]

\* MaskToolsWidget.showEvent
showEvent(s, w, image) ==
    LET r == _activeImageChanged(s, w, image)
    IN  [m |-> r.m,
         w |-> IF r.m.exc = "none"
               THEN [r.w EXCEPT !.listening = "shown"] ELSE r.w]

\* MaskToolsWidget.hideEvent
hideEvent(s, w) ==
    [m |-> s,
     w |-> [LeaveDrawingTool(w) EXCEPT !.listening =
               IF PyLen(s.mask.shape) # 0 THEN "care" ELSE "off"]]

\* MaskToolsWidget._activeImageChangedAfterCare
_activeImageChangedAfterCare(s, w, image) ==
    IF image = <<>>
    THEN [m |-> s, w |-> [w EXCEPT !.listening = "off"]]
    ELSE [m |-> s,
          w |-> [w EXCEPT !.data = image,
                          !.listening = IF image # s.mask.shape
                                        THEN "off" ELSE "care"]]

\* MaskToolsWidget.load; read is what reading the file gives: "array" (the
\* array of the given shape and data), "IOError" (neither numpy.load nor
\* EdfFile can read it) or an exception of numpy.load other than IOError
load(s, w, read, shape, data) ==
    IF read = "IOError" THEN Return(s, "False")
    ELSE IF read # "array" THEN Raise(s, read)
    ELSE IF Len(shape) # 2 THEN Return(s, "False")
    ELSE IF shape = w.data
    THEN Return(ThenCommit(setMask(s, shape, data)), "True")
    ELSE LET height == IF w.data[1] < shape[1] THEN w.data[1] ELSE shape[1]
             width == IF w.data[2] < shape[2] THEN w.data[2] ELSE shape[2]
             resizedMask ==
                 [c \in Cells(w.data) |->
                     IF c[1] < height /\ c[2] < width
                     THEN ToUInt8(data[c]) ELSE 0]
         IN  Return(ThenCommit(setMask(s, w.data, resizedMask)), "resized")

\* MaskToolsWidget._handleClearMask
_handleClearMask(s, level) == ThenCommit(clear(s, level))

\* a resetMask that resets the history together with the grid
resetMask_resetHistory(s, w) == ThenCommit(resetHistory(reset(s, w.data)))

\* MaskToolsWidget.resetMask
resetMask(s, w) == ThenCommit(reset(s, w.data))

\* MaskToolsWidget._handleInvertMask
_handleInvertMask(s, level) == ThenCommit(invert(s, level))

\* MaskToolsWidget._maskBtnClicked; filled tells whether the line edits the
\* checked threshold needs hold a text, stencil is where the comparison of
\* self._data with the thresholds is true
_maskBtnClicked(s, w, level, filled, stencil) ==
    IF PyLen(w.data) # 0 /\ filled
    THEN ThenCommit(updateStencil(s, level, stencil, TRUE))
    ELSE s

\* a _plotDrawEvent whose pencil branch commits at every event
_plotDrawEvent_commitProgress(s, w, ev, level, choice, rect, fill, pos, disk, line) ==
    IF w.drawingMode = "None"
       \/ ev \notin {"drawingProgress", "drawingFinished"}
    THEN [m |-> s, w |-> w]
    ELSE IF PyLen(w.data) = 0
    THEN [m |-> s, w |-> w]
    ELSE LET w1 == IF w.doMask = "None" THEN [w EXCEPT !.doMask = choice]
                   ELSE w
             doMask == w1.doMask = "True"
             finished == ev = "drawingFinished"
             \* the statements after the edits run if none of them raised
             tail(m, wt) ==
                 [m |-> m,
                  w |-> IF m.exc = "none" /\ finished
                        THEN [wt EXCEPT !.doMask = "None"] ELSE wt]
         IN  IF w1.drawingMode = "rectangle" /\ finished
             THEN tail(ThenCommit(updateRectangle(s, level, rect[1], rect[2],
                                                  rect[3], rect[4], doMask)),
                       w1)
             ELSE IF w1.drawingMode = "polygon" /\ finished
             THEN tail(ThenCommit(updatePolygon(s, level, fill, doMask)), w1)
             ELSE IF w1.drawingMode = "pencil"
             THEN LET m1 == updateDisk(s, level, disk, doMask)
                      m2 == IF /\ m1.exc = "none"
                               /\ w1.lastPencilPos # <<>>
                               /\ w1.lastPencilPos # pos
                            THEN updateLine(m1, level, line, doMask)
                            ELSE m1
                      m3 == ThenCommit(m2)
                  IN  tail(m3,
                           IF m3.exc # "none" THEN w1
                           ELSE IF finished
                           THEN [w1 EXCEPT !.lastPencilPos = <<>>]
                           ELSE [w1 EXCEPT !.lastPencilPos = pos])
             ELSE tail(s, w1)

\* MaskToolsWidget._plotDrawEvent; ev is event['event'], choice the
\* mask/unmask state read from the radio buttons and the Ctrl key, rect the
\* rectangle in array coordinates, fill the polygon's cells, pos the pencil
\* position, disk and line what the rasterisers return for the pencil
_plotDrawEvent(s, w, ev, level, choice, rect, fill, pos, disk, line) ==
    IF w.drawingMode = "None"
       \/ ev \notin {"drawingProgress", "drawingFinished"}
    THEN [m |-> s, w |-> w]
    ELSE IF PyLen(w.data) = 0
    THEN [m |-> s, w |-> w]
    ELSE LET w1 == IF w.doMask = "None" THEN [w EXCEPT !.doMask = choice]
                   ELSE w
             doMask == w1.doMask = "True"
             finished == ev = "drawingFinished"
             \* the statements after the edits run if none of them raised
             tail(m, wt) ==
                 [m |-> m,
                  w |-> IF m.exc = "none" /\ finished
                        THEN [wt EXCEPT !.doMask = "None"] ELSE wt]
         IN  IF w1.drawingMode = "rectangle" /\ finished
             THEN tail(ThenCommit(updateRectangle(s, level, rect[1], rect[2],
                                                  rect[3], rect[4], doMask)),
                       w1)
             ELSE IF w1.drawingMode = "polygon" /\ finished
             THEN tail(ThenCommit(updatePolygon(s, level, fill, doMask)), w1)
             ELSE IF w1.drawingMode = "pencil"
             THEN LET m1 == updateDisk(s, level, disk, doMask)
                      m2 == IF /\ m1.exc = "none"
                               /\ w1.lastPencilPos # <<>>
                               /\ w1.lastPencilPos # pos
                            THEN updateLine(m1, level, line, doMask)
                            ELSE m1
                      m3 == IF finished THEN ThenCommit(m2) ELSE m2
                  IN  tail(m3,
                           IF m3.exc # "none" THEN w1
                           ELSE IF finished
                           THEN [w1 EXCEPT !.lastPencilPos = <<>>]
                           ELSE [w1 EXCEPT !.lastPencilPos = pos])
             ELSE tail(s, w1)

\* ---------------------------------------------------------------------------
\* the state machine: one action per method call
\* ---------------------------------------------------------------------------

\* storage names are renumbered in order of first use (mask, history,
\* redoStack), which keeps which arrays share a buffer and forgets the rest
Refs(s) == <<s.mask>> \o s.history \o s.redoStack

\* the distinct storage names of the arrays q[k..], in order of first use,
\* after those of seen
RECURSIVE SeenIds(_, _, _)
SeenIds(q, k, seen) ==
    IF k > Len(q) THEN seen
    ELSE IF \E j \in DOMAIN seen : seen[j] = q[k].id
    THEN SeenIds(q, k + 1, seen)
    ELSE SeenIds(q, k + 1, Append(seen, q[k].id))

Rename(s, seen) ==
    LET ren(a) == [a EXCEPT !.id =
                      (CHOOSE j \in DOMAIN seen : seen[j] = a.id) - 1]
    IN  [s EXCEPT !.mask = ren(s.mask),
                  !.history = [k \in DOMAIN s.history |-> ren(s.history[k])],
                  !.redoStack = [k \in DOMAIN s.redoStack |-> ren(s.redoStack[k])]]

\* the object at the start of a call
Self ==
    [mask |-> mask, history |-> history, redoStack |-> redoStack,
     historyDepth |-> historyDepth, events |-> <<>>, exc |-> "none",
     notified |-> <<>>, ret |-> "None", commits |-> 0]

\* the call returns (or raises) leaving the Mask object as s
CallReturns(s, name) ==
    \E t \in {s} : \E seen \in {SeenIds(Refs(t), 1, <<>>)} :
    \E c \in {Rename(t, seen)} :
        /\ mask' = c.mask
        /\ history' = c.history
        /\ redoStack' = c.redoStack
        /\ historyDepth' = c.historyDepth
        /\ events' = c.events
        /\ exc' = c.exc
        /\ notified' = c.notified
        /\ ret' = c.ret
        /\ commits' = c.commits
        /\ lastOp' = name

\* a call made on the Mask object itself: the widget is not involved
CallEnds(s, name) == CallReturns(s, name) /\ UNCHANGED lastEmitted

Becomes(s, name) == CallEnds(s, name) /\ UNCHANGED widget

\* MaskToolsWidget.__init__: no image data yet, never shown, no drawing tool
\* no signal has been emitted and resetHistory() has not run
NothingEmitted ==
    [undoable |-> "none", redoable |-> "none", seeded |-> FALSE]

WidgetInit ==
    [data |-> <<0, 0>>,        \* self._data.shape
     listening |-> "none",     \* slot connected to plot.sigActiveImageChanged
     enabled |-> TRUE,         \* self.isEnabled()
     drawingMode |-> "None",   \* self._drawingMode
     lastPencilPos |-> <<>>,   \* self._lastPencilPos (<<>> is None)
     doMask |-> "None"]        \* self._doMask

NoLevel == 0 - 1
NoArgs ==
    [level |-> NoLevel, doMask |-> FALSE, pts |-> {}, rect |-> <<0, 0, 0, 0>>,
     before |-> <<>>, array |-> <<>>, kind |-> "", outcome |-> ""]

\* ---------------------------------------------------------------------------
\* Spec: every method, called in any order, on small masks
\* ---------------------------------------------------------------------------

\* arguments
Shapes2D == {<<0, 0>>} \cup {<<1, c>> : c \in 1..MaxCols}
Levels == (0..MaxLevel) \cup {BadLevel}
RowPoints == {0} \X (0..MaxCols)
PointSets == {{}} \cup {{p} : p \in RowPoints}

Init ==
    \E depth \in 1..MaxDepth :
        /\ mask = MaskInit(depth).mask
        /\ history = MaskInit(depth).history
        /\ redoStack = MaskInit(depth).redoStack
        /\ historyDepth = depth
        /\ events = <<>>
        /\ exc = "none"
        /\ notified = <<>>
        /\ ret = "None"
        /\ commits = 0
        /\ widget = WidgetInit
        /\ lastEmitted = NothingEmitted
        /\ lastOp = "__init__"
        /\ args = NoArgs

SetMaskAct ==
    /\ \/ \E shape \in Shapes2D : \E data \in [Cells(shape) -> Levels] :
              Becomes(setMask(Self, shape, data), "setMask")
       \/ Becomes(setMask(Self, EmptyShape1D, <<>>), "setMask")
    /\ UNCHANGED args

ResetHistoryAct ==
    Becomes(resetHistory(Self), "resetHistory") /\ UNCHANGED args

CommitAct == Becomes(commit(Self), "commit") /\ UNCHANGED args

UndoAct == Becomes(undo(Self), "undo") /\ UNCHANGED args

RedoAct == Becomes(redo(Self), "redo") /\ UNCHANGED args

ClearAct ==
    /\ \E level \in Levels : Becomes(clear(Self, level), "clear")
    /\ UNCHANGED args

ResetAct ==
    /\ \E shape \in Shapes2D \cup {<<>>} :
           Becomes(reset(Self, shape), "reset")
    /\ UNCHANGED args

InvertAct ==
    /\ \E level \in Levels : Becomes(invert(Self, level), "invert")
    /\ UNCHANGED args

UpdateRectangleAct ==
    /\ \E level \in Levels, col \in 0..(MaxCols - 1),
          width \in 0..(MaxCols - 1), doMask \in BOOLEAN :
           Becomes(updateRectangle(Self, level, 0, col, 0, width, doMask),
                   "updateRectangle")
    /\ UNCHANGED args

\* shapes.polygon_fill_mask is not part of the sources: on the rank-1 mask of
\* __init__ it either raises or returns an empty fill
UpdatePolygonAct ==
    /\ \E level \in Levels, fill \in SUBSET Cells(mask.shape),
          doMask \in BOOLEAN :
           \/ Becomes(updatePolygon(Self, level, fill, doMask), "updatePolygon")
           \/ /\ Len(mask.shape) # 2
              /\ Becomes(Raise(Self, "Exception"), "updatePolygon")
    /\ UNCHANGED args

UpdatePointsAct ==
    /\ \E level \in Levels, pts \in PointSets, doMask \in BOOLEAN :
           Becomes(updatePoints(Self, level, pts, doMask), "updatePoints")
    /\ UNCHANGED args

UpdateStencilAct ==
    /\ \E level \in Levels, stencil \in SUBSET Cells(mask.shape),
          doMask \in BOOLEAN :
           Becomes(updateStencil(Self, level, stencil, doMask),
                   "updateStencil")
    /\ UNCHANGED args

UpdateDiskAct ==
    /\ \E level \in Levels, disk \in PointSets, doMask \in BOOLEAN :
           Becomes(updateDisk(Self, level, disk, doMask), "updateDisk")
    /\ UNCHANGED args

UpdateLineAct ==
    /\ \E level \in Levels, line \in PointSets, doMask \in BOOLEAN :
           Becomes(updateLine(Self, level, line, doMask), "updateLine")
    /\ UNCHANGED args

Next ==
    \/ SetMaskAct
    \/ ResetHistoryAct
    \/ CommitAct
    \/ UndoAct
    \/ RedoAct
    \/ ClearAct
    \/ ResetAct
    \/ InvertAct
    \/ UpdateRectangleAct
    \/ UpdatePolygonAct
    \/ UpdatePointsAct
    \/ UpdateStencilAct
    \/ UpdateDiskAct
    \/ UpdateLineAct

Spec == Init /\ [][Next]_vars

\* ---------------------------------------------------------------------------
\* SpecDeep: the calls that set, commit and restore the grid, with a history
\* one entry deeper than Spec's
\* ---------------------------------------------------------------------------

DeepInit ==
    /\ mask = MaskInit(MaxDepth + 1).mask
    /\ history = MaskInit(MaxDepth + 1).history
    /\ redoStack = MaskInit(MaxDepth + 1).redoStack
    /\ historyDepth = MaskInit(MaxDepth + 1).historyDepth
    /\ events = <<>>
    /\ exc = "none"
    /\ notified = <<>>
    /\ ret = "None"
    /\ commits = 0
    /\ widget = WidgetInit
    /\ lastEmitted = NothingEmitted
    /\ lastOp = "__init__"
    /\ args = NoArgs

DeepNext ==
    \/ SetMaskAct
    \/ CommitAct
    \/ UndoAct
    \/ RedoAct
    \/ ResetAct
    \/ InvertAct

SpecDeep == DeepInit /\ [][DeepNext]_vars

\* ---------------------------------------------------------------------------
\* SpecEdit: one edit of a mask set by setMask, with its arguments recorded
\* ---------------------------------------------------------------------------

EditShapes ==
    {<<0, 0>>} \cup
    {sh \in (1..EditMaxCells) \X (1..EditMaxCells) :
        sh[1] * sh[2] <= EditMaxCells}
EditLevels == (0..EditMaxLevel) \cup {BadLevel}
BadShapes == {EmptyShape1D, <<1, 1, 1>>}
Coord == (0 - 1)..EditMaxCells
Points == Coord \X Coord

RECURSIVE SetsUpTo(_)
SetsUpTo(n) ==
    IF n = 0 THEN {{}}
    ELSE LET prev == SetsUpTo(n - 1)
         IN  prev \cup {S \cup {p} : S \in prev, p \in Points}

EditPointSets == SetsUpTo(MaxPts)
RectStart == (0 - 2)..(EditMaxCells - 1)
RectExtent == (0 - 1)..MaxExtent

EditInit ==
    /\ mask = MaskInit(DefaultDepth).mask
    /\ history = MaskInit(DefaultDepth).history
    /\ redoStack = MaskInit(DefaultDepth).redoStack
    /\ historyDepth = MaskInit(DefaultDepth).historyDepth
    /\ events = <<>>
    /\ exc = "none"
    /\ notified = <<>>
    /\ ret = "None"
    /\ commits = 0
    /\ widget = WidgetInit
    /\ lastEmitted = NothingEmitted
    /\ lastOp = "__init__"
    /\ args = NoArgs

\* the mask is as __init__ or one setMask left it
Fresh == lastOp \in {"__init__", "setMask"}

\* setMask is called on the mask of __init__ or of an earlier setMask, with
\* an array of rank 2, 1 or 3
EditSetMask ==
    /\ Fresh
    /\ \E shape \in EditShapes \cup BadShapes :
       \E data \in [Cells(shape) -> EditLevels] :
           /\ Becomes(setMask(Self, shape, data), "setMask")
           /\ args' = [NoArgs EXCEPT !.array = [shape |-> shape, data |-> data]]

EditClear ==
    /\ Fresh
    /\ \E level \in EditLevels :
           /\ Becomes(clear(Self, level), "clear")
           /\ args' = [NoArgs EXCEPT !.before = mask.data, !.level = level]

EditInvert ==
    /\ Fresh
    /\ \E level \in EditLevels :
           /\ Becomes(invert(Self, level), "invert")
           /\ args' = [NoArgs EXCEPT !.before = mask.data, !.level = level]

EditUpdateRectangle ==
    /\ Fresh
    /\ \E level \in EditLevels, row \in RectStart, col \in RectStart,
          height \in RectExtent, width \in RectExtent, doMask \in BOOLEAN :
           /\ Becomes(updateRectangle(Self, level, row, col, height, width,
                                      doMask), "updateRectangle")
           /\ args' = [NoArgs EXCEPT !.before = mask.data, !.level = level,
                                     !.doMask = doMask,
                                     !.rect = <<row, col, height, width>>]

EditUpdatePolygon ==
    /\ Fresh
    /\ \E level \in EditLevels, fill \in SUBSET Cells(mask.shape),
          doMask \in BOOLEAN :
           /\ \/ Becomes(updatePolygon(Self, level, fill, doMask),
                         "updatePolygon")
              \/ /\ Len(mask.shape) # 2
                 /\ Becomes(Raise(Self, "Exception"), "updatePolygon")
           /\ args' = [NoArgs EXCEPT !.before = mask.data, !.level = level,
                                     !.doMask = doMask,
                                     !.pts = fill]

EditUpdatePoints ==
    /\ Fresh
    /\ \E level \in EditLevels, pts \in EditPointSets, doMask \in BOOLEAN :
           /\ Becomes(updatePoints(Self, level, pts, doMask), "updatePoints")
           /\ args' = [NoArgs EXCEPT !.before = mask.data, !.level = level,
                                     !.doMask = doMask,
                                     !.pts = pts]

EditUpdateStencil ==
    /\ Fresh
    /\ \E level \in EditLevels, stencil \in SUBSET Cells(mask.shape),
          doMask \in BOOLEAN :
           /\ Becomes(updateStencil(Self, level, stencil, doMask),
                      "updateStencil")
           /\ args' = [NoArgs EXCEPT !.before = mask.data, !.level = level,
                                     !.doMask = doMask,
                                     !.pts = stencil]

EditUpdateDisk ==
    /\ Fresh
    /\ \E level \in EditLevels, disk \in EditPointSets, doMask \in BOOLEAN :
           /\ Becomes(updateDisk(Self, level, disk, doMask), "updateDisk")
           /\ args' = [NoArgs EXCEPT !.before = mask.data, !.level = level,
                                     !.doMask = doMask,
                                     !.pts = disk]

EditUpdateLine ==
    /\ Fresh
    /\ \E level \in EditLevels, line \in EditPointSets, doMask \in BOOLEAN :
           /\ Becomes(updateLine(Self, level, line, doMask), "updateLine")
           /\ args' = [NoArgs EXCEPT !.before = mask.data, !.level = level,
                                     !.doMask = doMask,
                                     !.pts = line]

EditNext ==
    \/ EditSetMask
    \/ EditClear
    \/ EditInvert
    \/ EditUpdateRectangle
    \/ EditUpdatePoints
    \/ EditUpdatePolygon
    \/ EditUpdateStencil
    \/ EditUpdateDisk
    \/ EditUpdateLine

SpecEdit == EditInit /\ [][EditNext]_vars

\* ---------------------------------------------------------------------------
\* SpecWindow: one-cell masks with distinguishable labels, committed, undone
\* and redone; commit records the contents history had before the call
\* ---------------------------------------------------------------------------

WindowLevels == 0..WindowMaxLevel

WindowInit ==
    \E depth \in 1..(MaxDepth + 1) :
        /\ mask = MaskInit(depth).mask
        /\ history = MaskInit(depth).history
        /\ redoStack = MaskInit(depth).redoStack
        /\ historyDepth = depth
        /\ events = <<>>
        /\ exc = "none"
        /\ notified = <<>>
        /\ ret = "None"
        /\ commits = 0
        /\ widget = WidgetInit
        /\ lastEmitted = NothingEmitted
        /\ lastOp = "__init__"
        /\ args = NoArgs

WindowSetMask ==
    /\ \E level \in WindowLevels :
           Becomes(setMask(Self, <<1, 1>>, [c \in Cells(<<1, 1>>) |-> level]),
                   "setMask")
    /\ args' = NoArgs

WindowCommit ==
    /\ Becomes(commit(Self), "commit")
    /\ args' = [NoArgs EXCEPT !.before =
                    [k \in DOMAIN history |->
                        [shape |-> history[k].shape, data |-> history[k].data]]]

WindowUndo ==
    /\ Becomes(undo(Self), "undo")
    /\ args' = [NoArgs EXCEPT !.before = mask.data]

WindowRedo == Becomes(redo(Self), "redo") /\ args' = NoArgs

WindowNext ==
    \/ WindowSetMask
    \/ WindowCommit
    \/ WindowUndo
    \/ WindowRedo

SpecWindow == WindowInit /\ [][WindowNext]_vars

\* ---------------------------------------------------------------------------
\* SpecLabels: arrays and levels of any integer value given to setMask and to
\* the region operations, recorded in args, with the calls that copy the grid
\* into history and redoStack
\* ---------------------------------------------------------------------------

LabelSetMask ==
    \E shape \in Shapes2D : \E data \in [Cells(shape) -> Levels] :
        /\ Becomes(setMask(Self, shape, data), "setMask")
        /\ args' = [NoArgs EXCEPT !.array = [shape |-> shape, data |-> data]]

LabelUpdatePoints ==
    \E level \in Levels, pts \in PointSets, doMask \in BOOLEAN :
        /\ Becomes(updatePoints(Self, level, pts, doMask), "updatePoints")
        /\ args' = [NoArgs EXCEPT !.level = level, !.pts = pts,
                                  !.doMask = doMask]

LabelUpdateRectangle ==
    \E level \in Levels, col \in 0..(MaxCols - 1),
       width \in 0..(MaxCols - 1), doMask \in BOOLEAN :
        /\ Becomes(updateRectangle(Self, level, 0, col, 0, width, doMask),
                   "updateRectangle")
        /\ args' = [NoArgs EXCEPT !.level = level, !.doMask = doMask,
                                  !.rect = <<0, col, 0, width>>]

LabelCommit == Becomes(commit(Self), "commit") /\ args' = NoArgs

LabelUndo == Becomes(undo(Self), "undo") /\ args' = NoArgs

LabelRedo == Becomes(redo(Self), "redo") /\ args' = NoArgs

LabelNext ==
    \/ LabelSetMask
    \/ LabelUpdatePoints
    \/ LabelUpdateRectangle
    \/ LabelCommit
    \/ LabelUndo
    \/ LabelRedo

SpecLabels == Init /\ [][LabelNext]_vars

\* ---------------------------------------------------------------------------
\* SpecSignals: the calls that change history and redoStack, with a listener
\* of sigUndoable and sigRedoable that keeps the latest value of each
\* ---------------------------------------------------------------------------

\* the value the latest of the signals yes and no in evs carries, old if evs
\* holds neither
LastSignal(evs, yes, no, old) ==
    LET ks == {k \in DOMAIN evs : evs[k] \in {yes, no}}
    IN  IF ks = {} THEN old
        ELSE IF evs[Max(ks)] = yes THEN "True" ELSE "False"

\* the call ends and the listener has received its signals; ran tells
\* whether the call ran resetHistory()
Heard(s, name, ran) ==
    /\ CallReturns(s, name)
    /\ lastEmitted' =
           [undoable |-> LastSignal(s.events, "sigUndoable(True)",
                                    "sigUndoable(False)",
                                    lastEmitted.undoable),
            redoable |-> LastSignal(s.events, "sigRedoable(True)",
                                    "sigRedoable(False)",
                                    lastEmitted.redoable),
            seeded |-> lastEmitted.seeded \/ ran]
    /\ args' = NoArgs
    /\ UNCHANGED widget

SignalSetMask ==
    \E shape \in Shapes2D : \E data \in [Cells(shape) -> 0..MaxLevel] :
        Heard(setMask(Self, shape, data), "setMask", FALSE)

SignalResetHistory == Heard(resetHistory(Self), "resetHistory", TRUE)

SignalReset ==
    \E shape \in Shapes2D \cup {<<>>} :
        Heard(reset(Self, shape), "reset",
              (IF shape = <<>> THEN <<0, 0>> ELSE shape) # mask.shape)

SignalCommit == Heard(commit(Self), "commit", FALSE)

SignalUndo == Heard(undo(Self), "undo", FALSE)

SignalRedo == Heard(redo(Self), "redo", FALSE)

SignalNext ==
    \/ SignalSetMask
    \/ SignalResetHistory
    \/ SignalReset
    \/ SignalCommit
    \/ SignalUndo
    \/ SignalRedo

SpecSignals == WindowInit /\ [][SignalNext]_vars

\* ---------------------------------------------------------------------------
\* SpecWidget: a MaskToolsWidget and its Mask, driven by show/hide, changes
\* of the plot's active image, the buttons, the drawing tools, load and save
\* ---------------------------------------------------------------------------

\* shapes of the plot's active image; <<>> is no image
WidgetImages == {<<>>} \cup (Shapes2D \ {<<0, 0>>})
\* values of levelSpinBox (range 1..255)
WidgetLevels == 1..MaxLevel
\* arrays read from a file
LoadShapes ==
    {<<0, 0>>} \cup
    {sh \in (1..LoadMaxCells) \X (1..LoadMaxCells) :
        sh[1] * sh[2] <= LoadMaxCells}
Kinds == {"edf", "tif", "npy", "png"}
CodecOutcomes == {"ok", "IOError", "Exception"}
Tools == {"None", "rectangle", "polygon", "pencil"}
DrawEvents == {"drawingStarted", "drawingProgress", "drawingFinished"}
PencilPoints == {0} \X (0..(MaxCols - 1))

WidgetSpecInit ==
    /\ mask = MaskInit(DefaultDepth).mask
    /\ history = MaskInit(DefaultDepth).history
    /\ redoStack = MaskInit(DefaultDepth).redoStack
    /\ historyDepth = MaskInit(DefaultDepth).historyDepth
    /\ events = <<>>
    /\ exc = "none"
    /\ notified = <<>>
    /\ ret = "None"
    /\ commits = 0
    /\ widget = WidgetInit
    /\ lastEmitted = NothingEmitted
    /\ lastOp = "__init__"
    /\ args = NoArgs

\* the handler ends leaving the Mask object and the widget as the pair r
HandlerEnds(r, name) ==
    \E q \in {r} : CallEnds(q.m, name) /\ widget' = q.w

\* the widget is on screen and enabled: its buttons and tools can be used
Usable == widget.listening = "shown" /\ widget.enabled

\* room is left in the history explored
Room == Len(history) < WidgetMaxHistory

WShowEvent ==
    /\ widget.listening # "shown"
    /\ \E image \in WidgetImages :
           HandlerEnds(showEvent(Self, widget, image), "showEvent")
    /\ args' = NoArgs

WHideEvent ==
    /\ widget.listening = "shown"
    /\ HandlerEnds(hideEvent(Self, widget), "hideEvent")
    /\ args' = NoArgs

WActiveImageChanged ==
    /\ widget.listening = "shown"
    /\ \E image \in WidgetImages :
           HandlerEnds(_activeImageChanged(Self, widget, image),
                       "_activeImageChanged")
    /\ args' = [NoArgs EXCEPT !.before = mask.data]

WActiveImageChangedAfterCare ==
    /\ widget.listening = "care"
    /\ \E image \in WidgetImages :
           HandlerEnds(_activeImageChangedAfterCare(Self, widget, image),
                       "_activeImageChangedAfterCare")
    /\ args' = NoArgs

WLoad ==
    /\ Room
    /\ \/ \E read \in {"IOError", "Exception"} :
              /\ CallEnds(load(Self, widget, read, <<>>, <<>>), "load")
              /\ args' = [NoArgs EXCEPT !.outcome = read]
       \/ \E shape \in LoadShapes \cup BadShapes :
          \E data \in [Cells(shape) -> Levels] :
              /\ CallEnds(load(Self, widget, "array", shape, data), "load")
              /\ args' = [NoArgs EXCEPT
                              !.outcome = "array",
                              !.before = mask.data,
                              !.array = [shape |-> shape, data |-> data]]
    /\ UNCHANGED widget

WSave ==
    /\ \E kind \in Kinds, codec \in CodecOutcomes :
           /\ CallEnds(save(Self, kind, codec), "save")
           /\ args' = [NoArgs EXCEPT !.kind = kind, !.outcome = codec]
    /\ UNCHANGED widget

\* another tool of the exclusive drawActionGroup is checked: the action of
\* the tool in use is toggled off and the new one on
WSelectTool ==
    /\ Usable
    /\ \E tool \in Tools \ {widget.drawingMode} :
           /\ CallEnds(Self, "selectTool")
           /\ widget' = [widget EXCEPT !.drawingMode = tool]
    /\ args' = NoArgs

\* the plot sends draw events to _plotDrawEvent while a drawing tool is
\* selected; the arguments the selected tool does not read are left out
WPlotDrawEvent ==
    /\ widget.drawingMode # "None"
    /\ Room
    /\ \E ev \in DrawEvents, level \in WidgetLevels,
          choice \in {"True", "False"} :
           /\ \/ /\ widget.drawingMode = "rectangle"
                 /\ \E col \in 0..(MaxCols - 1), width \in 0..(MaxCols - 1) :
                        HandlerEnds(
                            _plotDrawEvent(Self, widget, ev, level, choice,
                                           <<0, col, 0, width>>, {}, <<0, 0>>,
                                           {}, {}),
                            "_plotDrawEvent")
              \/ /\ widget.drawingMode = "polygon"
                 /\ \E fill \in SUBSET Cells(mask.shape) :
                        HandlerEnds(
                            _plotDrawEvent(Self, widget, ev, level, choice,
                                           <<0, 0, 0, 0>>, fill, <<0, 0>>,
                                           {}, {}),
                            "_plotDrawEvent")
              \/ /\ widget.drawingMode = "pencil"
                 /\ \E pos \in PencilPoints :
                    \E disk \in {{}, {pos}}, line \in {{}, {pos}} :
                        HandlerEnds(
                            _plotDrawEvent(Self, widget, ev, level, choice,
                                           <<0, 0, 0, 0>>, {}, pos, disk,
                                           line),
                            "_plotDrawEvent")
           /\ args' = [NoArgs EXCEPT !.kind = ev,
                                     !.before = widget.lastPencilPos]

WHandleClearMask ==
    /\ Usable /\ Room
    /\ \E level \in WidgetLevels :
           CallEnds(_handleClearMask(Self, level), "_handleClearMask")
    /\ args' = NoArgs
    /\ UNCHANGED widget

WResetMask ==
    /\ Usable /\ Room
    /\ CallEnds(resetMask(Self, widget), "resetMask")
    /\ args' = [NoArgs EXCEPT !.before = mask.data]
    /\ UNCHANGED widget

WHandleInvertMask ==
    /\ Usable /\ Room
    /\ \E level \in WidgetLevels :
           CallEnds(_handleInvertMask(Self, level), "_handleInvertMask")
    /\ args' = NoArgs
    /\ UNCHANGED widget

WMaskBtnClicked ==
    /\ Usable /\ Room
    /\ \E level \in WidgetLevels, filled \in BOOLEAN,
          stencil \in SUBSET Cells(widget.data) :
           /\ CallEnds(_maskBtnClicked(Self, widget, level, filled, stencil),
                       "_maskBtnClicked")
           /\ args' = [NoArgs EXCEPT
                           !.outcome = IF filled THEN "filled" ELSE "empty"]
    /\ UNCHANGED widget

\* undoBtn.clicked is connected to Mask.undo, redoBtn.clicked to Mask.redo
WUndo ==
    /\ Usable
    /\ CallEnds(undo(Self), "undo")
    /\ args' = NoArgs
    /\ UNCHANGED widget

WRedo ==
    /\ Usable
    /\ CallEnds(redo(Self), "redo")
    /\ args' = NoArgs
    /\ UNCHANGED widget

WidgetNext ==
    \/ WShowEvent
    \/ WHideEvent
    \/ WActiveImageChanged
    \/ WActiveImageChangedAfterCare
    \/ WLoad
    \/ WSave
    \/ WHandleClearMask
    \/ WResetMask
    \/ WHandleInvertMask
    \/ WMaskBtnClicked
    \/ WUndo
    \/ WRedo

SpecWidget == WidgetSpecInit /\ [][WidgetNext]_vars

\* ---------------------------------------------------------------------------
\* SpecDraw: the widget shown over one image of shape (1, MaxCols), used
\* through its drawing tools and buttons
\* ---------------------------------------------------------------------------

DShowEvent ==
    /\ widget.listening # "shown"
    /\ HandlerEnds(showEvent(Self, widget, <<1, MaxCols>>), "showEvent")
    /\ args' = NoArgs

DrawNext ==
    \/ DShowEvent
    \/ WHideEvent
    \/ WSelectTool
    \/ WPlotDrawEvent
    \/ WHandleClearMask
    \/ WResetMask
    \/ WHandleInvertMask
    \/ WMaskBtnClicked
    \/ WLoad
    \/ WUndo
    \/ WRedo

SpecDraw == WidgetSpecInit /\ [][DrawNext]_vars

\* ---------------------------------------------------------------------------
\* properties
\* ---------------------------------------------------------------------------

\* an array's shape and contents, whatever buffer holds them
Val(a) == [shape |-> a.shape, data |-> a.data]
Vals(q) == [k \in DOMAIN q |-> Val(q[k])]
Count(q, e) == Cardinality({k \in DOMAIN q : q[k] = e})

RegionOps ==
    {"updateRectangle", "updatePolygon", "updatePoints", "updateStencil",
     "updateDisk", "updateLine"}
LevelOps == RegionOps \cup {"clear", "invert"}

\* C1 as stated: history holds at least one snapshot at every point after
\* construction, the point right after construction included.
C1_HistoryNeverEmpty == Len(history) >= 1

\* C1 amended: right after construction history is empty; a commit() or
\* resetHistory() that returns (reset with a new shape included) leaves at
\* least one snapshot, only those calls make an empty history non-empty, and
\* a non-empty history never becomes empty again.
C1_HistoryNonEmptyOnceSeeded ==
    /\ [](lastOp = "__init__" => history = <<>>)
    /\ [][/\ Len(history) >= 1 => Len(history') >= 1
          /\ lastOp' = "commit" /\ exc' = "none" => Len(history') >= 1
          /\ lastOp' = "resetHistory" => Len(history') = 1
          /\ lastOp' = "reset" /\ mask'.shape # mask.shape => Len(history') = 1
          /\ history = <<>> /\ history' # <<>> =>
                 lastOp' \in {"commit", "resetHistory", "reset"}]_vars

\* a commit right after construction has seeded the history with the
\* snapshot of the initial rank-1 array
C1_Witness ==
    /\ lastOp = "commit"
    /\ Len(history) = 1
    /\ history[1].shape = EmptyShape1D

\* number of calls that change the grid among n consecutive undo() calls
RECURSIVE UndoChanges(_, _)
UndoChanges(s, n) ==
    IF n = 0 THEN 0
    ELSE LET u == [undo(s) EXCEPT !.events = <<>>]
         IN  (IF Val(u.mask) # Val(s.mask) THEN 1 ELSE 0) + UndoChanges(u, n - 1)

\* C2: the length of history never exceeds historyDepth (after redo() too),
\* and of historyDepth + 1 consecutive undo() calls from any reachable state at
\* most historyDepth - 1 change the grid.
C2_HistoryBounded ==
    /\ Len(history) <= historyDepth
    /\ UndoChanges(Self, historyDepth + 1) <= historyDepth - 1

\* redo() has appended to a history that is now full
C2_Witness ==
    /\ lastOp = "redo"
    /\ events # <<>>
    /\ historyDepth >= 2
    /\ Len(history) = historyDepth

\* C3: an undo() made with at least 2 history entries and the grid equal to
\* history[-1], followed at once by redo(), leaves grid, history and redoStack
\* with the contents they had before the undo().
C3_UndoRedoInverse ==
    [][(/\ lastOp' = "undo"
        /\ Len(history) >= 2
        /\ Val(mask) = Val(Last(history)))
       => LET r == redo(Self')
          IN  /\ Val(r.mask) = Val(mask)
              /\ Vals(r.history) = Vals(history)
              /\ Vals(r.redoStack) = Vals(redoStack)]_vars

\* undo() has moved a snapshot that differs from the restored grid to the
\* redo stack, on top of an earlier undone one
C3_Witness ==
    /\ lastOp = "undo"
    /\ Len(redoStack) >= 2
    /\ Val(Last(redoStack)) # Val(mask)
    /\ Val(mask) = Val(Last(history))

C5_CommitIdempotent ==
    [][(lastOp = "commit" /\ lastOp' = "commit")
       => /\ history' = history
          /\ redoStack' = redoStack
          /\ events' = <<>>]_vars

\* a commit() has just appended the second history entry: the state a second
\* commit() starts from
C5_Witness ==
    /\ lastOp = "commit"
    /\ events = <<"sigUndoable(True)">>
    /\ Len(history) = 2

InPlaceOps == LevelOps

\* C6: the live grid and the snapshots of history and redoStack are held by
\* pairwise distinct buffers, and an in-place edit of the grid changes no
\* stored snapshot.
C6_SnapshotsIndependent ==
    /\ [](Cardinality(UsedIds(Self)) = 1 + Len(history) + Len(redoStack))
    /\ [][lastOp' \in InPlaceOps
          => /\ Vals(history') = Vals(history)
             /\ Vals(redoStack') = Vals(redoStack)]_vars

\* an in-place edit has changed the grid while history and redoStack hold
\* snapshots
C6_Witness ==
    /\ lastOp \in InPlaceOps
    /\ Len(history) >= 1
    /\ Len(redoStack) >= 1
    /\ Val(mask) # Val(Last(history))
    /\ Val(mask) # Val(Last(redoStack))

\* C7 as stated: a 2D grid changes its shape only through reset().
C7_ShapeChangesOnlyByReset ==
    [][(Len(mask.shape) = 2 /\ mask'.shape # mask.shape)
       => lastOp' = "reset"]_vars

\* C8: reset(shape) with a shape other than the grid's leaves one snapshot,
\* the all-zero grid of the new shape, in history and none in redoStack, emits
\* undoable(false) and redoable(false), and leaves undo() and redo() no-ops.
C8_ReshapeResetsHistory ==
    [][(lastOp' = "reset" /\ mask'.shape # mask.shape)
       => /\ Len(history') = 1
          /\ Val(history'[1]) = Val(Zeros(Self', mask'.shape))
          /\ redoStack' = <<>>
          /\ Count(events', "sigUndoable(False)") = 1
          /\ Count(events', "sigRedoable(False)") = 1
          /\ undo(Self') = Self'
          /\ redo(Self') = Self']_vars

\* reset to a new non-empty shape has replaced the history
C8_Witness ==
    /\ lastOp = "reset"
    /\ mask.shape = <<1, MaxCols>>
    /\ Len(history) = 1
    /\ events = <<"sigUndoable(False)", "sigRedoable(False)", "sigChanged">>

\* C9 as stated: a level-taking operation called on a 2D grid with a level
\* outside [1, 255] raises and leaves the grid as it was.
C9_BadLevelFailsFast ==
    [][(/\ lastOp' \in LevelOps
        /\ Len(mask.shape) = 2
        /\ ~(args'.level >= 1 /\ args'.level <= 255))
       => /\ exc' = "AssertionError"
          /\ Val(mask') = Val(mask)]_vars

\* C10: a region operation called with mask=false and level L changes no
\* cell other than from L to 0.
C10_UnmaskLevelScoped ==
    [][(lastOp' \in RegionOps /\ ~args'.doMask)
       => /\ mask'.shape = mask.shape
          /\ \A c \in DOMAIN mask.data :
                \/ mask'.data[c] = mask.data[c]
                \/ mask.data[c] = args'.level /\ mask'.data[c] = 0]_vars

\* an unmask of level 1 over both cells of a (1, 2) grid has left the cell
\* of level 2 and a cell at 0
C10_Witness ==
    /\ lastOp = "updateRectangle"
    /\ exc = "none"
    /\ ~args.doMask
    /\ args.level = 1
    /\ args.rect = <<0, 0, 0, 1>>
    /\ mask.shape = <<1, 2>>
    /\ mask.data[<<0, 0>>] = 2
    /\ mask.data[<<0, 1>>] = 0

C13_InvertSwaps ==
    [][(/\ lastOp' = "invert"
        /\ args'.level >= 1 /\ args'.level <= 255)
       => /\ exc' = "none"
          /\ mask'.shape = mask.shape
          /\ \A c \in DOMAIN mask.data :
                mask'.data[c] =
                    IF mask.data[c] = 0 THEN args'.level
                    ELSE IF mask.data[c] = args'.level THEN 0
                    ELSE mask.data[c]]_vars

\* invert(2) has turned the grid [[0, 2]] into [[2, 0]]
C13_Witness ==
    /\ lastOp = "invert"
    /\ exc = "none"
    /\ args.level = 2
    /\ mask.shape = <<1, 2>>
    /\ args.before[<<0, 0>>] = 0
    /\ args.before[<<0, 1>>] = 2
    /\ mask.data[<<0, 0>>] = 2
    /\ mask.data[<<0, 1>>] = 0

\* C14: clear(level) with level in [1, 255] raises nothing, sets to 0 every
\* cell that held level and leaves every other cell as it was; afterwards no
\* cell holds level.
C14_ClearLevel ==
    [][(/\ lastOp' = "clear"
        /\ args'.level >= 1 /\ args'.level <= 255)
       => /\ exc' = "none"
          /\ mask'.shape = mask.shape
          /\ \A c \in DOMAIN mask.data :
                /\ mask'.data[c] =
                       IF mask.data[c] = args'.level THEN 0 ELSE mask.data[c]
                /\ mask'.data[c] # args'.level]_vars

\* clear(1) has turned the grid [[1, 2]] into [[0, 2]]
C14_Witness ==
    /\ lastOp = "clear"
    /\ exc = "none"
    /\ args.level = 1
    /\ mask.shape = <<1, 2>>
    /\ args.before[<<0, 0>>] = 1
    /\ args.before[<<0, 1>>] = 2
    /\ mask.data[<<0, 0>>] = 0
    /\ mask.data[<<0, 1>>] = 2

\* C15 as stated: for every historyDepth >= 2, commit() emits undoable(true)
\* if and only if that call makes history grow from exactly 1 entry to exactly
\* 2 entries; a commit() made with 2 or more entries never emits it.
C15_UndoableTrueOnlyOnGrowth ==
    [][(lastOp' = "commit" /\ historyDepth >= 2)
       => (Count(events', "sigUndoable(True)") >= 1
           <=> (Len(history) = 1 /\ Len(history') = 2))]_vars

\* C16: undo() emits undoable(false), once, if and only if it restores a
\* snapshot and leaves history with exactly 1 entry; an undo() that leaves 2
\* or more entries, or that is a no-op, emits no undoable event.
C16_UndoUndoableFalse ==
    [][lastOp' = "undo"
       => /\ Count(events', "sigUndoable(True)") = 0
          /\ Count(events', "sigUndoable(False)") =
                 IF Len(history) > 1 /\ Len(history') = 1 THEN 1 ELSE 0
          /\ Len(history) <= 1 => events' = <<>> /\ history' = history]_vars

\* a second undo() in a row has left one history entry and said that nothing
\* is left to undo
C16_Witness ==
    /\ lastOp = "undo"
    /\ Len(history) = 1
    /\ Len(redoStack) = 2
    /\ events = <<"sigChanged", "sigUndoable(False)">>

\* C17: undo() emits redoable(true), once, if and only if it takes redoStack
\* from empty to exactly 1 entry; an undo() made while redoStack is non-empty
\* emits no redoable event.
C17_UndoRedoableTrue ==
    [][lastOp' = "undo"
       => /\ Count(events', "sigRedoable(False)") = 0
          /\ Count(events', "sigRedoable(True)") =
                 IF redoStack = <<>> /\ Len(redoStack') = 1 THEN 1 ELSE 0]_vars

\* the first undo() after a commit has left two history entries and made
\* redo available
C17_Witness ==
    /\ lastOp = "undo"
    /\ Len(redoStack) = 1
    /\ Len(history) = 2
    /\ events = <<"sigChanged", "sigRedoable(True)">>

\* C18 as stated: redo() emits redoable(false) if and only if it leaves
\* redoStack empty, emits undoable(true) if and only if it makes history reach
\* exactly 2 entries, and emits no redoable event when it leaves entries in
\* redoStack.
C18_RedoSignalsAsStated ==
    [][lastOp' = "redo"
       => /\ Count(events', "sigRedoable(False)") >= 1 <=> redoStack' = <<>>
          /\ Count(events', "sigUndoable(True)") >= 1
                 <=> (Len(history) # 2 /\ Len(history') = 2)
          /\ redoStack' # <<>> =>
                 /\ Count(events', "sigRedoable(False)") = 0
                 /\ Count(events', "sigRedoable(True)") = 0]_vars

\* C18 amended: a redo() called with an empty redoStack is a no-op that
\* leaves it empty and emits nothing; a redo() called with a non-empty
\* redoStack emits redoable(false), once, if and only if it leaves redoStack
\* empty, emits undoable(true), once, if and only if it makes history reach
\* exactly 2 entries, and emits no other redoable or undoable event.
C18_RedoSignals ==
    [][lastOp' = "redo"
       => /\ redoStack = <<>> =>
                 /\ events' = <<>>
                 /\ redoStack' = <<>>
                 /\ history' = history
          /\ redoStack # <<>> =>
                 /\ Count(events', "sigRedoable(False)") =
                        IF redoStack' = <<>> THEN 1 ELSE 0
                 /\ Count(events', "sigUndoable(True)") =
                        IF Len(history) = 1 /\ Len(history') = 2 THEN 1 ELSE 0
                 /\ Count(events', "sigRedoable(True)") = 0
                 /\ Count(events', "sigUndoable(False)") = 0]_vars

\* redo() has restored the last undone snapshot, the second history entry
C18_Witness ==
    /\ lastOp = "redo"
    /\ redoStack = <<>>
    /\ Len(history) = 2
    /\ events = <<"sigChanged", "sigRedoable(False)", "sigUndoable(True)">>

GridOps ==
    RegionOps \cup {"setMask", "clear", "invert", "reset"}

\* C19: a call of setMask, clear, invert, reset, updateRectangle,
\* updatePolygon, updatePoints, updateStencil, updateDisk or updateLine that
\* returns, and an undo() or redo() that is not a no-op, emits changed exactly
\* once, and the grid a listener reads at that emission is the grid the call
\* leaves; commit() and resetHistory() emit no changed event.
C19_ChangedOncePerMutation ==
    [][/\ (\/ lastOp' \in GridOps /\ exc' = "none"
           \/ lastOp' = "undo" /\ Len(history) > 1
           \/ lastOp' = "redo" /\ redoStack # <<>>)
          => /\ Count(events', "sigChanged") = 1
             /\ notified' = <<Val(mask')>>
       /\ lastOp' \in {"commit", "resetHistory"}
          => /\ Count(events', "sigChanged") = 0
             /\ notified' = <<>>]_vars

\* updateStencil, which edits through updatePoints, has set cell (0, 0) of a
\* committed grid and emitted changed once
C19_Witness ==
    /\ lastOp = "updateStencil"
    /\ exc = "none"
    /\ events = <<"sigChanged">>
    /\ notified = <<Val(mask)>>
    /\ mask.shape = <<1, MaxCols>>
    /\ mask.data[<<0, 0>>] = 1
    /\ history # <<>>
    /\ Val(Last(history)) # Val(mask)

\* two arrays hold the same cells: the same shape and contents, or no cell
\* at all
SameGrid(a, b) ==
    \/ Val(a) = Val(b)
    \/ Cells(a.shape) = {} /\ Cells(b.shape) = {}

\* C20 as stated: whenever commit(), resetHistory(), or an undo() or redo()
\* that is not a no-op returns, the top of history is element-wise equal to
\* the current grid: it holds the same cells with the same values.
C20_TopOfHistoryIsGrid ==
    (\/ lastOp \in {"commit", "resetHistory"} /\ exc = "none"
     \/ lastOp \in {"undo", "redo"} /\ events # <<>>)
    => /\ history # <<>>
       /\ SameGrid(Last(history), mask)

HistorySignals ==
    {"sigUndoable(True)", "sigUndoable(False)", "sigRedoable(True)",
     "sigRedoable(False)"}

\* C21: setMask, clear, invert, the six region operations and a reset that
\* keeps the shape leave history and redoStack as they were and emit no
\* undoable or redoable event; a history that holds entries gets one more
\* only by commit() or redo().
C21_EditsLeaveHistory ==
    [][/\ (\/ lastOp' \in GridOps \ {"reset"}
           \/ lastOp' = "reset" /\ mask'.shape = mask.shape)
          => /\ Vals(history') = Vals(history)
             /\ Vals(redoStack') = Vals(redoStack)
             /\ \A k \in DOMAIN events' : events'[k] \notin HistorySignals
       /\ (history # <<>> /\ Len(history') > Len(history))
          => lastOp' \in {"commit", "redo"}
       /\ Vals(history') # Vals(history)
          => lastOp' \in {"commit", "redo", "undo", "resetHistory", "reset"}]_vars

\* a reset to the shape the grid already had has zeroed a grid whose
\* committed snapshot is not all zero, with an undone snapshot in redoStack
C21_Witness ==
    /\ lastOp = "reset"
    /\ events = <<"sigChanged">>
    /\ Len(history) = 1
    /\ Len(redoStack) = 1
    /\ mask.shape = Last(history).shape
    /\ Val(mask) # Val(Last(history))

\* C22: undo() with at least 2 history entries moves exactly the top
\* snapshot of history onto the end of redoStack and sets the grid to a copy
\* of the new top, held by a buffer of its own; the older history entries and
\* the earlier redoStack entries are unchanged.
C22_UndoMovesTop ==
    [][(lastOp' = "undo" /\ Len(history) >= 2)
       => /\ exc' = "none"
          /\ Vals(history') = Vals(Front(history))
          /\ Vals(redoStack') = Vals(Append(redoStack, Last(history)))
          /\ Val(mask') = Val(Last(history'))
          /\ mask'.id # Last(history').id]_vars

\* undo() has discarded an uncommitted edit: the grid is the older of two
\* different committed snapshots, the newer one is in redoStack
C22_Witness ==
    /\ lastOp = "undo"
    /\ Len(history) = 2
    /\ Len(redoStack) = 1
    /\ Val(history[1]) # Val(history[2])
    /\ Val(Last(redoStack)) # Val(Last(history))
    /\ Val(mask) = Val(Last(history))

\* C23: undo() called with at most 1 history entry is a no-op: the grid, its
\* uncommitted edits included, history and redoStack are unchanged and no
\* event is emitted.
C23_UndoNoOp ==
    [][(lastOp' = "undo" /\ Len(history) <= 1)
       => /\ exc' = "none"
          /\ mask' = mask
          /\ history' = history
          /\ redoStack' = redoStack
          /\ events' = <<>>
          /\ notified' = <<>>]_vars

\* undo() has returned with a single history entry and nothing to redo,
\* leaving a grid that differs from that entry
C23_Witness ==
    /\ lastOp = "undo"
    /\ events = <<>>
    /\ Len(history) = 1
    /\ redoStack = <<>>
    /\ mask.shape = history[1].shape
    /\ Val(mask) # Val(history[1])

\* C24: redo() called with an empty redoStack is a no-op: grid, history and
\* redoStack are unchanged and no event is emitted.
C24_RedoNoOp ==
    [][(lastOp' = "redo" /\ redoStack = <<>>)
       => /\ exc' = "none"
          /\ mask' = mask
          /\ history' = history
          /\ redoStack' = redoStack
          /\ events' = <<>>
          /\ notified' = <<>>]_vars

\* redo() has returned with nothing to redo, leaving two history entries
\* and a grid that differs from the newer one
C24_Witness ==
    /\ lastOp = "redo"
    /\ events = <<>>
    /\ redoStack = <<>>
    /\ Len(history) = 2
    /\ mask.shape = history[2].shape
    /\ Val(mask) # Val(history[2])

\* C25: a commit() that appends while history holds historyDepth entries
\* evicts exactly the oldest one: afterwards history holds the entries it
\* had, without the first, in their order, followed by the committed grid.
C25_SlidingWindow ==
    [][(/\ lastOp' = "commit"
        /\ Len(history) = historyDepth
        /\ Vals(history') # Vals(history))
       => /\ Len(history') = historyDepth
          /\ Vals(history') = Vals(Tail(history)) \o <<Val(mask')>>
          /\ Val(mask') = Val(mask)]_vars

\* commit() has appended a fourth distinct grid to a full history of depth
\* 3: the first of the three earlier entries is gone, the other two moved up
C25_Witness ==
    /\ lastOp = "commit"
    /\ historyDepth = 3
    /\ Len(args.before) = 3
    /\ Cardinality({args.before[1], args.before[2], args.before[3],
                    Val(mask)}) = 4
    /\ Vals(history) = <<args.before[2], args.before[3], Val(mask)>>

\* C26: setMask(array) with an array of rank other than 2 raises
\* AssertionError, leaves grid, history and redoStack as they were and emits
\* nothing; with an array of rank 2 it replaces the grid by the array with
\* every value cast to uint8 (modulo 256), emits changed, and leaves history
\* and redoStack as they were.
C26_SetMaskRank ==
    [][lastOp' = "setMask"
       => IF Len(args'.array.shape) # 2
          THEN /\ exc' = "AssertionError"
               /\ mask' = mask
               /\ history' = history
               /\ redoStack' = redoStack
               /\ events' = <<>>
               /\ notified' = <<>>
          ELSE /\ exc' = "none"
               /\ mask'.shape = args'.array.shape
               /\ DOMAIN mask'.data = DOMAIN args'.array.data
               /\ \A c \in DOMAIN mask'.data :
                     /\ mask'.data[c] \in 0..255
                     /\ (mask'.data[c] - args'.array.data[c]) % 256 = 0
               /\ events' = <<"sigChanged">>
               /\ Vals(history') = Vals(history)
               /\ Vals(redoStack') = Vals(redoStack)]_vars

\* setMask has refused an array of rank 3 and left the (1, 2) grid [[2, 1]]
C26_Witness ==
    /\ lastOp = "setMask"
    /\ exc = "AssertionError"
    /\ args.array.shape = <<1, 1, 1>>
    /\ mask.shape = <<1, 2>>
    /\ mask.data[<<0, 0>>] = 2
    /\ mask.data[<<0, 1>>] = 1

\* the state is as SpecWidget can reach it
\* C27: save(path, kind) reports every failure as a False return value: for
\* each kind in {edf, tif, npy} a failing write of the file yields False and
\* no exception propagates to the caller, an unknown kind returns False, and
\* save never changes the grid, history or redoStack.
C27_SaveFailuresAreFalse ==
    [][lastOp' = "save" =>
          /\ exc' = "none"
          /\ args'.outcome # "ok" => ret' = "False"
          /\ args'.kind \notin {"edf", "tif", "npy"} => ret' = "False"
          /\ mask' = mask /\ history' = history /\ redoStack' = redoStack]_vars

\* the grid is the array read from the file cropped or zero-padded to shape
LoadedInto(grid, shape, array) ==
    /\ grid.shape = shape
    /\ \A c \in Cells(shape) :
           grid.data[c] = IF c \in Cells(array.shape)
                          THEN ToUInt8(array.data[c]) ELSE 0

\* a load that read an array of rank 2 has just returned or raised
LoadedImage == lastOp = "load" /\ args.outcome = "array" /\ Len(args.array.shape) = 2

\* C28: loading a 2D array whose shape differs from the current mask's gives
\* the 'resized' outcome, the mask keeps the shape it had before the load,
\* each cell inside both shapes holds the loaded value and every other cell
\* holds 0.
C28_LoadKeepsMaskShape ==
    [][LoadedImage' /\ args'.array.shape # mask.shape =>
          /\ exc' = "none"
          /\ ret' = "resized"
          /\ LoadedInto(mask', mask.shape, args'.array)]_vars

\* the cells of an array are labels of a uint8
CellsInRange(a) == \A c \in DOMAIN a.data : a.data[c] \in 0..(UInt8Mod - 1)

\* C29: in every reachable state every cell of the grid and of every
\* snapshot stored in history or redoStack holds one label in [0, 255],
\* whatever integers were passed to setMask or as level to the region
\* operations.
C29_LabelsInRange ==
    /\ CellsInRange(mask)
    /\ \A k \in DOMAIN history : CellsInRange(history[k])
    /\ \A k \in DOMAIN redoStack : CellsInRange(redoStack[k])

\* the level UInt8Mod + 1 has just been passed to a masking updatePoints of
\* a grid with snapshots in history and redoStack: the cell holds the level
\* reduced to a uint8
C29_Witness ==
    /\ lastOp = "updatePoints"
    /\ args.level = BadLevel /\ args.doMask
    /\ Len(history) >= 1 /\ Len(redoStack) >= 1
    /\ Last(history).shape = mask.shape
    /\ \E c \in args.pts :
           /\ c \in DOMAIN mask.data
           /\ mask.data[c] = ToUInt8(BadLevel)
           /\ Last(history).data[c] = 0

\* the handler committed once, after its edits: the newest snapshot is the
\* grid and history is at most one entry longer
CommittedOnce ==
    /\ exc' = "none"
    /\ commits' = 1
    /\ history' # <<>> /\ Val(Last(history')) = Val(mask')
    /\ Len(history') <= Len(history) + 1

\* the handler did not commit: history and redoStack are as they were
NotCommitted ==
    /\ commits' = 0
    /\ Vals(history') = Vals(history)
    /\ Vals(redoStack') = Vals(redoStack)

\* C30: each completed user action of the widget (rectangle, polygon or
\* pencil drawingFinished, Clear, Invert, Clear all, an applied threshold, a
\* load that read an image) calls commit() exactly once, after its edits;
\* pencil drawingProgress events edit the grid without committing, and so do
\* no other draw events, so a stroke adds at most one history entry.
C30_OneCommitPerGesture ==
    [][/\ lastOp' \in {"_handleClearMask", "resetMask", "_handleInvertMask"}
             => CommittedOnce
       /\ lastOp' = "_maskBtnClicked" =>
             IF args'.outcome = "filled" THEN CommittedOnce
             ELSE NotCommitted /\ exc' = "none" /\ Val(mask') = Val(mask)
       /\ lastOp' = "load" =>
             IF ret' \in {"True", "resized"} THEN CommittedOnce
             ELSE NotCommitted /\ Val(mask') = Val(mask)
       /\ lastOp' = "_plotDrawEvent" =>
             IF args'.kind = "drawingFinished" THEN CommittedOnce
             ELSE /\ NotCommitted /\ exc' = "none"
                  /\ \/ Val(mask') = Val(mask)
                     \/ /\ widget.drawingMode = "pencil"
                        /\ args'.kind = "drawingProgress"]_vars

\* a pencil stroke has finished after at least one progress event: the one
\* commit of the stroke added the second entry of history, which holds the
\* label drawn
C30_Witness ==
    /\ lastOp = "_plotDrawEvent"
    /\ args.kind = "drawingFinished"
    /\ args.before # <<>>
    /\ widget.drawingMode = "pencil"
    /\ commits = 1
    /\ Len(history) = 2
    /\ Val(Last(history)) = Val(mask)
    /\ \E c \in DOMAIN mask.data : mask.data[c] # 0 /\ history[1].data[c] = 0

\* the Mask object of the next state, at the start of a call
SelfNext ==
    [mask |-> mask', history |-> history', redoStack |-> redoStack',
     historyDepth |-> historyDepth', events |-> <<>>, exc |-> "none",
     notified |-> <<>>, ret |-> "None", commits |-> 0]

C32_ShownMaskFitsImage ==
    widget.listening = "shown" =>
        /\ mask.shape = widget.data
        /\ ~widget.enabled => widget.data = <<0, 0>>

\* resetMask has just run on a grid of the image's shape holding a label
ClearedAll ==
    /\ lastOp' = "resetMask"
    /\ mask.shape = widget.data
    /\ \E c \in DOMAIN mask.data : mask.data[c] # 0

\* the grid is zeroed, one entry is appended to the history kept, and an
\* undo() brings the grid of before the call back
ClearAllUndone ==
    /\ exc' = "none"
    /\ mask'.shape = mask.shape
    /\ \A c \in DOMAIN mask'.data : mask'.data[c] = 0
    /\ Len(history') = Len(history) + 1
    /\ Vals(Front(history')) = Vals(history)
    /\ Val(Last(history')) = Val(mask')
    /\ Val(undo(SelfNext).mask) = Val(mask)

C34_OutsideRectangleNoChange ==
    [][(/\ lastOp' = "updateRectangle"
        /\ Len(mask.shape) = 2
        /\ \/ args'.rect[1] + args'.rect[3] < 0
           \/ args'.rect[2] + args'.rect[4] < 0
           \/ args'.rect[1] >= mask.shape[1]
           \/ args'.rect[2] >= mask.shape[2])
       => Val(mask') = Val(mask)]_vars

\* C35: once resetHistory() has run (directly or through a reset to a new
\* shape), in every state the value carried by the latest undoable event is
\* whether history has at least 2 entries, and the value carried by the
\* latest redoable event is whether redoStack is non-empty.
C35_SignalsInSync ==
    lastEmitted.seeded =>
        /\ lastEmitted.undoable = IF Len(history) >= 2 THEN "True" ELSE "False"
        /\ lastEmitted.redoable = IF redoStack # <<>> THEN "True" ELSE "False"

\* an undo() has left two of three history entries without emitting an
\* undoable event: the latest one, of the commit that made the second
\* entry, still says that undo is possible
C35_Witness ==
    /\ lastEmitted.seeded
    /\ lastOp = "undo"
    /\ Len(history) = 2
    /\ Len(redoStack) = 1
    /\ events = <<"sigChanged", "sigRedoable(True)">>
    /\ lastEmitted.undoable = "True"
    /\ lastEmitted.redoable = "True"

\* C36: with historyDepth fixed, in every reachable state history and
\* redoStack together hold at most historyDepth snapshots: undo() and redo()
\* keep the sum of their lengths, and commit() and resetHistory() leave
\* redoStack empty.
C36_HistoryPlusRedoBounded ==
    /\ [](Len(history) + Len(redoStack) <= historyDepth)
    /\ [][/\ historyDepth' = historyDepth
          /\ lastOp' \in {"undo", "redo"} =>
                 Len(history') + Len(redoStack') =
                     Len(history) + Len(redoStack)
          /\ lastOp' \in {"commit", "resetHistory"} /\ exc' = "none" =>
                 redoStack' = <<>> /\ Len(history') <= historyDepth]_vars

\* undo() calls have moved all the snapshots of a full history but the
\* oldest to redoStack
C36_Witness ==
    /\ lastOp = "undo"
    /\ historyDepth = MaxDepth + 1
    /\ Len(history) = 1
    /\ Len(redoStack) = historyDepth - 1

\* grid, history and redoStack of a Mask object, whatever buffers hold them
Core(s) ==
    [mask |-> Val(s.mask), history |-> Vals(s.history),
     redoStack |-> Vals(s.redoStack)]

\* the grids, histories and redoStacks that sequences of undo() and redo()
\* calls reach from the objects of todo, added to seen
RECURSIVE UndoRedoClosure(_, _)
UndoRedoClosure(todo, seen) ==
    IF todo = {} THEN seen
    ELSE LET s == CHOOSE x \in todo : TRUE
             done == seen \cup {Core(s)}
             new == {n \in {undo(s), redo(s)} : Core(n) \notin done}
         IN  UndoRedoClosure((todo \ {s}) \cup new, done)

\* undo() has just been called with 2 or more history entries on a grid that
\* differs from the newest of them
UndoneUncommitted ==
    /\ lastOp' = "undo"
    /\ Len(history) >= 2
    /\ Val(mask) # Val(Last(history))

\* the grid is the entry below the top and a redo() gives the entry that was
\* on top
UndoneToCommitted ==
    /\ Val(mask') = Val(history[Len(history) - 1])
    /\ Val(redo(SelfNext).mask) = Val(Last(history))

\* C37 as stated: when undo() is called with at least 2 history entries
\* while the grid differs from history[-1], the grid becomes the entry below
\* the top, no following sequence of undo() and redo() calls ever returns the
\* grid to its content of before the undo, and a following redo() yields the
\* last committed state.
C37_UncommittedNeverBack ==
    [][UndoneUncommitted =>
          /\ UndoneToCommitted
          /\ \A c \in UndoRedoClosure({SelfNext}, {}) :
                 c.mask # Val(mask)]_vars

\* C37 amended: ... the grids that following sequences of undo() and redo()
\* calls reach are the snapshots history and redoStack held before the undo,
\* so the uncommitted content comes back only where one of those snapshots
\* equals it.
C37_UncommittedDiscarded ==
    [][UndoneUncommitted =>
          /\ UndoneToCommitted
          /\ \A c \in UndoRedoClosure({SelfNext}, {}) :
                 \/ \E k \in DOMAIN history : c.mask = Val(history[k])
                 \/ \E k \in DOMAIN redoStack : c.mask = Val(redoStack[k])]_vars

\* undo() has discarded a grid that no snapshot equals: the grid is the entry
\* below the former top, which is on redoStack
C37_Witness ==
    /\ lastOp = "undo"
    /\ redoStack # <<>> /\ history # <<>>
    /\ args.before # Last(redoStack).data
    /\ \A k \in DOMAIN history : history[k].data # args.before
    /\ \A k \in DOMAIN redoStack : redoStack[k].data # args.before
    /\ Val(mask) = Val(Last(history))

\* C38: in every reachable state no two consecutive history entries are
\* element-wise equal, so every undo() that is not a no-op and starts from a
\* committed grid changes at least one cell of the grid.
C38_NoEqualNeighbours ==
    /\ [](\A k \in 1..(Len(history) - 1) :
              Val(history[k]) # Val(history[k + 1]))
    /\ [][/\ lastOp' = "undo"
          /\ Len(history) >= 2
          /\ Val(mask) = Val(Last(history))
          => Val(mask') # Val(mask)]_vars

\* k calls of undo() in a row, k calls of redo() in a row
RECURSIVE UndoTimes(_, _)
UndoTimes(s, k) == IF k = 0 THEN s ELSE UndoTimes(undo(s), k - 1)

RECURSIVE RedoTimes(_, _)
RedoTimes(s, k) == IF k = 0 THEN s ELSE RedoTimes(redo(s), k - 1)

\* C39: from a state with a committed grid and at least k + 1 history
\* entries, k undo() calls followed by k redo() calls give back the grid,
\* the history (contents and order) and the redoStack of before, and after
\* the j-th redo the grid is the one that was current before the
\* (k - j + 1)-th undo.
C39_RedoIsLifo ==
    (history # <<>> /\ Val(mask) = Val(Last(history))) =>
        \A k \in 1..(Len(history) - 1) :
            LET undone == UndoTimes(Self, k)
            IN  /\ Len(undone.redoStack) = Len(redoStack) + k
                /\ Core(RedoTimes(undone, k)) = Core(Self)
                /\ \A j \in 1..k :
                       Val(RedoTimes(undone, j).mask) =
                           Val(UndoTimes(Self, k - j).mask)

\* a committed grid on top of three different snapshots, with nothing to
\* redo: two undo() calls and two redo() calls apply
C39_Witness ==
    /\ lastOp = "commit"
    /\ Len(history) = MaxDepth + 1
    /\ redoStack = <<>>
    /\ Val(mask) = Val(Last(history))
    /\ \A j, k \in DOMAIN history :
           j # k => Val(history[j]) # Val(history[k])

\* C40: per-stroke pencil state does not leak between strokes: where a new
\* pencil stroke starts, right after a drawingFinished handled with the
\* pencil or right after the pencil tool has been selected again,
\* _lastPencilPos is None and _doMask is None.
C40_NoStrokeLeak ==
    (/\ widget.drawingMode = "pencil"
     /\ \/ lastOp = "selectTool"
        \/ lastOp = "_plotDrawEvent" /\ args.kind = "drawingFinished")
    => /\ widget.lastPencilPos = <<>>
       /\ widget.doMask = "None"

====
